---- MODULE Spec2Model ----
(***************************************************************************)
(* Model of the spatial asset manager:                                     *)
(*   - the ingestion run of scripts/ingest/scan_assets.py (crawl, batched  *)
(*     existence check, extraction, batched conflict-safe insert), run by  *)
(*     two concurrent processes against one store;                         *)
(*   - the catalog read API of backend/app/main.py (collections, extent    *)
(*     aggregation, item listing and search).                              *)
(* The store is the PostGIS database: a collections table and an items     *)
(* table.  The items table is a heap of rows (a sequence), so duplicate    *)
(* rows are representable and their absence is a property, not a given.    *)
(***************************************************************************)
EXTENDS Integers, Sequences, FiniteSets, TLC

\* ------------------------------------------------------------------------
\* Bounds of the model
\* ------------------------------------------------------------------------
MaxTree == 3        \* number of files below the scanned root
MaxBatch == 2       \* largest --batch-size / --insert-batch-size tried
MaxItems == 3       \* largest items table the read API is queried against

None == "None"
NaN == -999999      \* stands for the float not-a-number (v == v is false)
NoCrs == 0          \* dataset.crs is None
NoExit == -1        \* the process has not exited

Runs == {1, 2}

\* ------------------------------------------------------------------------
\* The filesystem: scan roots and the files below them
\* ------------------------------------------------------------------------
Root == "/data"             \* an existing directory given as --root
Cwd == "/cwd"               \* the process's working directory
Missing == "/missing"       \* a path that does not exist
NasMount == "/mnt/nas"      \* a value of NAS_HOST_ROOT

Files == 1..6

\* One record per file of the universe: rel is os.path.relpath(path, root)
\* split at the separators, suffix the lower-cased extension, crs the EPSG
\* code of the dataset (NoCrs when it has none), bounds the native bounds.
FileInfo ==
  << [rel |-> <<"a.tif">>, suffix |-> ".tif", crs |-> 3857,
      bounds |-> <<0, 0, 1000, 2000>>, empty |-> FALSE, corrupt |-> FALSE, mtime |-> 1],
     [rel |-> <<"b.shp">>, suffix |-> ".shp", crs |-> NoCrs,
      bounds |-> <<1, 1, 2, 2>>, empty |-> FALSE, corrupt |-> FALSE, mtime |-> 2],
     [rel |-> <<"c.geojson">>, suffix |-> ".geojson", crs |-> 4326,
      bounds |-> <<5, 5, 15, 15>>, empty |-> FALSE, corrupt |-> FALSE, mtime |-> 3],
     [rel |-> <<"e.gpkg">>, suffix |-> ".gpkg", crs |-> 4326,
      bounds |-> <<NaN, NaN, NaN, NaN>>, empty |-> FALSE, corrupt |-> FALSE, mtime |-> 4],
     [rel |-> <<"f.tiff">>, suffix |-> ".tiff", crs |-> 4326,
      bounds |-> <<40, 40, 50, 50>>, empty |-> FALSE, corrupt |-> TRUE, mtime |-> 5],
     [rel |-> <<"..d", "a.tif">>, suffix |-> ".tif", crs |-> 4326,
      bounds |-> <<20, 20, 30, 30>>, empty |-> FALSE, corrupt |-> FALSE, mtime |-> 6] >>

\* Path components whose text starts with "..".
DotDotNames == {"..d"}

EXTENSIONS == {".tif", ".tiff", ".shp", ".geojson", ".gpkg"}

\* os.walk order of the universe: the files of the root directory as the
\* directory lists them, then those of its subdirectories.  A tree holds
\* MaxTree files that are neighbours in that order.
WalkOrder == <<2, 4, 5, 3, 1, 6>>

Trees == {SubSeq(WalkOrder, i, i + MaxTree - 1) : i \in 1..(Len(WalkOrder) - MaxTree + 1)}

\* The working directory holds one recognized file.
CwdTree == <<3>>

iter_asset_paths(root, t) ==
  SelectSeq(IF root = Root THEN t ELSE CwdTree,
            LAMBDA f : FileInfo[f].suffix \in EXTENSIONS)

\* str(path) of a crawled file: the scan root joined with the relative path.
StrPath(root, f) == <<root, FileInfo[f].rel>>

\* ------------------------------------------------------------------------
\* Pure functions of scan_assets.py
\* ------------------------------------------------------------------------
\* chunked(): the first batch the generator yields and what it leaves.
RECURSIVE FillBatch(_, _, _)
FillBatch(batch, items, size) ==
  IF items = << >> THEN [batch |-> batch, rest |-> << >>]
  ELSE LET b == Append(batch, Head(items))
       IN IF Len(b) >= size THEN [batch |-> b, rest |-> Tail(items)]
          ELSE FillBatch(b, Tail(items), size)

chunked(items, size) == FillBatch(<< >>, items, size)

\* transform_bounds(crs, "EPSG:4326", ...): projected units to degrees.
transform_bounds(crs, b) ==
  IF crs = 3857 THEN <<b[1] \div 100, b[2] \div 100, b[3] \div 100, b[4] \div 100>>
  ELSE b

\* box(minx, miny, maxx, maxy): the rectangle polygon of the bounds.
box(minx, miny, maxx, maxy) ==
  [type |-> "Polygon", minx |-> minx, miny |-> miny, maxx |-> maxx, maxy |-> maxy]

to_bbox_wkt(bounds) ==
  [bbox |-> <<bounds[1], bounds[2], bounds[3], bounds[4]>>,
   geom |-> box(bounds[1], bounds[2], bounds[3], bounds[4])]

NullGeom == [type |-> "NULL"]      \* SQL NULL in the geom column
NullBBox == << >>                  \* SQL NULL in the bbox column

NoMeta == [tag |-> "none", bbox |-> NullBBox, geom |-> NullGeom, epsg |-> NoCrs]
Raised == [tag |-> "exc", bbox |-> NullBBox, geom |-> NullGeom, epsg |-> NoCrs]

raster_metadata(f) ==
  LET d == FileInfo[f]
  IN IF d.corrupt THEN Raised
     ELSE IF d.crs = NoCrs THEN NoMeta
     ELSE LET bounds == IF d.crs # 4326 THEN transform_bounds(d.crs, d.bounds)
                        ELSE d.bounds
              bw == to_bbox_wkt(bounds)
          IN [tag |-> "ok", bbox |-> bw.bbox, geom |-> bw.geom, epsg |-> d.crs]

\* Mutant: a source without coordinate system yields metadata with no geometry.
vector_metadata_null(f) ==
  LET d == FileInfo[f]
  IN IF d.corrupt THEN Raised
     ELSE [tag |-> "ok", bbox |-> NullBBox, geom |-> NullGeom, epsg |-> d.crs]

vector_metadata(f) ==
  LET d == FileInfo[f]
  IN IF d.corrupt THEN Raised
     ELSE IF d.empty \/ d.crs = NoCrs THEN NoMeta
     ELSE IF \E i \in 1..4 : d.bounds[i] = NaN THEN NoMeta
     ELSE LET bounds == IF d.crs # 4326 THEN transform_bounds(d.crs, d.bounds)
                        ELSE d.bounds
              bw == to_bbox_wkt(bounds)
          IN [tag |-> "ok", bbox |-> bw.bbox, geom |-> bw.geom, epsg |-> d.crs]

\* hashlib.sha1(path).hexdigest(): one-way and collision-free on the paths
\* of the model; the digests order differently from the paths.
RelCode(rel) ==
  CASE rel = <<"a.tif">> -> 7
    [] rel = <<"b.shp">> -> 2
    [] rel = <<"c.geojson">> -> 5
    [] rel = <<"e.gpkg">> -> 1
    [] rel = <<"f.tiff">> -> 8
    [] OTHER -> 3

RootCode(r) ==
  CASE r = Root -> 40
    [] r = Cwd -> 70
    [] OTHER -> 10

hash_path(path) == RootCode(path[1]) + RelCode(path[2])

\* rel_path / nas_path as main() derives them for a crawled file.
RelPath(f) ==
  LET raw == FileInfo[f].rel
  IN IF Head(raw) \in DotDotNames THEN <<raw[Len(raw)]>> ELSE raw

NasPath(hostRoot, f) == <<hostRoot, RelPath(f)>>

build_item_row(f, nas_path, collection_id, meta) ==
  [id |-> <<"nas", hash_path(nas_path)>>,
   collection_id |-> collection_id,
   datetime |-> FileInfo[f].mtime,
   geom |-> meta.geom,
   bbox |-> meta.bbox,
   year |-> None,
   region |-> None,
   zone |-> None,
   nas_path |-> nas_path]

\* ------------------------------------------------------------------------
\* Storage statements issued by scan_assets.py
\* ------------------------------------------------------------------------
RowsOf(q) == {q[i] : i \in 1..Len(q)}

\* SELECT nas_path FROM items WHERE nas_path = ANY(paths)
fetch_existing_paths(table, paths) ==
  IF paths = << >> THEN {}
  ELSE {table[i].nas_path : i \in 1..Len(table)}
         \cap {paths[i] : i \in 1..Len(paths)}

NullExtent == << >>                \* SQL NULL in the extent column

\* Mutant: ON CONFLICT (id) DO UPDATE, the call overwrites a present row.
ensure_collection_upsert(table, collection_id, title, description, nas_root) ==
  {c \in table : c.id # collection_id}
    \cup {[id |-> collection_id, title |-> title,
            description |-> description, extent |-> NullExtent,
            nas_root |-> nas_root]}

\* INSERT INTO collections ... ON CONFLICT (id) DO NOTHING; commit
ensure_collection(table, collection_id, title, description, nas_root) ==
  IF \E c \in table : c.id = collection_id THEN table
  ELSE table \cup {[id |-> collection_id, title |-> title,
                    description |-> description, extent |-> NullExtent,
                    nas_root |-> nas_root]}

\* Mutant: the table has no key on id, every row is stored.
InsertRowNoKey(res, row) == [ok |-> res.ok, table |-> Append(res.table, row)]

\* Mutant: a plain INSERT, a present id raises.
InsertRowPlain(res, row) ==
  IF ~res.ok THEN res
  ELSE IF \E i \in 1..Len(res.table) :
            res.table[i].id = row.id \/ res.table[i].nas_path = row.nas_path
       THEN [ok |-> FALSE, table |-> res.table]
  ELSE [ok |-> TRUE, table |-> Append(res.table, row)]

\* One row of INSERT INTO items ... ON CONFLICT (id) DO NOTHING: a row whose
\* id is present is dropped; a new id with a present nas_path violates the
\* unique constraint on the source path and raises.
InsertRow(res, row) ==
  IF ~res.ok THEN res
  ELSE IF \E i \in 1..Len(res.table) : res.table[i].id = row.id THEN res
  ELSE IF \E i \in 1..Len(res.table) : res.table[i].nas_path = row.nas_path
       THEN [ok |-> FALSE, table |-> res.table]
  ELSE [ok |-> TRUE, table |-> Append(res.table, row)]

RECURSIVE InsertRows(_, _)
InsertRows(res, rows) ==
  IF rows = << >> THEN res
  ELSE InsertRows(InsertRow(res, Head(rows)), Tail(rows))

\* insert_items(): the statement and its commit are one transaction; ok is
\* FALSE when the statement raised, and then nothing is committed.
insert_items(table, rows) ==
  IF rows = << >> THEN [ok |-> TRUE, table |-> table]
  ELSE LET res == InsertRows([ok |-> TRUE, table |-> table], rows)
       IN IF res.ok THEN res ELSE [ok |-> FALSE, table |-> table]

\* ------------------------------------------------------------------------
\* State
\* ------------------------------------------------------------------------
VARIABLES
  tree,            \* the recognized files below Root, in os.walk order
  env_host,        \* the NAS_HOST_ROOT environment variable (None: unset)
  items,           \* the items table
  collections,     \* the collections table
  pc,              \* where each ingestion run is
  args,            \* parsed command line of each run
  root,            \* resolved scan root of each run
  crawl,           \* what chunked(iter_asset_paths(root)) has not yielded yet
  batch,           \* the part of the current batch not processed yet
  existing,        \* result of the batch's existence check
  pending_rows,
  total_scanned,
  total_inserted,
  total_skipped,
  exit,            \* exit status of each run (NoExit while running)
  err,             \* why a run failed
  snap,            \* the items table when the run started
  after,           \* the run started after a completed non-dry run of the same tree
  added,           \* rows the run's insert statements added to the table
  logged,          \* the numbers of the run's summary log line (<< >>: not logged)
  fetches,         \* existence-check queries the run has issued
  queued,          \* rows the run appended to pending_rows
  passed,          \* rows the run handed to insert_items
  called,          \* arguments of the last stand-alone ensure_collection call
  resp             \* the read request being answered and its response

store == <<items, collections>>
env == <<tree, env_host>>
local == <<args, root, crawl, batch, existing, pending_rows>>
totals == <<total_scanned, total_inserted, total_skipped>>
hist == <<snap, after, added>>
trace == <<logged, fetches, queued, passed>>
runvars == <<pc, local, totals, exit, err, hist, trace, called>>
api == <<resp>>
vars == <<env, store, runvars, api>>

CollectionIds == {"nas-assets"}

\* No read request is being answered.
NoResp == [ep |-> "none"]

\* ensure_collection has not been called on its own.
NoCall == [collection_id |-> None]

NoArgs == [batch_size |-> 0, insert_batch_size |-> 0, dry_run |-> FALSE,
           collection_id |-> None]

Init ==
  /\ tree \in Trees
  /\ env_host \in {None, NasMount}
  /\ items = << >>
  /\ collections = {}
  /\ pc = [r \in Runs |-> "idle"]
  /\ args = [r \in Runs |-> NoArgs]
  /\ root = [r \in Runs |-> None]
  /\ crawl = [r \in Runs |-> << >>]
  /\ batch = [r \in Runs |-> << >>]
  /\ existing = [r \in Runs |-> {}]
  /\ pending_rows = [r \in Runs |-> << >>]
  /\ total_scanned = [r \in Runs |-> 0]
  /\ total_inserted = [r \in Runs |-> 0]
  /\ total_skipped = [r \in Runs |-> 0]
  /\ exit = [r \in Runs |-> NoExit]
  /\ err = [r \in Runs |-> None]
  /\ snap = [r \in Runs |-> << >>]
  /\ after = [r \in Runs |-> FALSE]
  /\ added = [r \in Runs |-> 0]
  /\ logged = [r \in Runs |-> << >>]
  /\ fetches = [r \in Runs |-> 0]
  /\ queued = [r \in Runs |-> << >>]
  /\ passed = [r \in Runs |-> << >>]
  /\ called = NoCall
  /\ resp = NoResp

\* ------------------------------------------------------------------------
\* The ingestion run: main() of scan_assets.py
\* ------------------------------------------------------------------------
ArgSets ==
  [batch_size : 1..MaxBatch, insert_batch_size : 1..MaxBatch,
   dry_run : BOOLEAN, collection_id : CollectionIds]

\* Path(args.root or os.getenv("NAS_DATA_ROOT", "")).expanduser().resolve():
\* the empty string resolves to the working directory.
ResolveRoot(rootArg) == IF rootArg = "" THEN Cwd ELSE rootArg

Exists(path) == path \in {Root, Cwd}

\* os.getenv("NAS_HOST_ROOT", str(root))
nas_host_root(r) == IF env_host = None THEN root[r] ELSE env_host

Fail(r, why) ==
  /\ pc' = [pc EXCEPT ![r] = "failed"]
  /\ exit' = [exit EXCEPT ![r] = 1]
  /\ err' = [err EXCEPT ![r] = why]

\* raise SystemExit("NAS_DATA_ROOT is not set or path does not exist.")
StartBadRoot(r) ==
  /\ pc[r] = "idle"
  /\ \E rootArg \in {Missing} :
       /\ ~Exists(ResolveRoot(rootArg))
       /\ Fail(r, "root")
  /\ UNCHANGED <<env, store, local, totals, hist, trace, called, api>>

\* psycopg2.connect raises
StartConnectFails(r) ==
  /\ pc[r] = "idle"
  /\ \E rootArg \in {Root, ""} :
       /\ Exists(ResolveRoot(rootArg))
       /\ root' = [root EXCEPT ![r] = ResolveRoot(rootArg)]
  /\ Fail(r, "connect")
  /\ UNCHANGED <<env, store, args, crawl, batch, existing, pending_rows,
                 totals, hist, trace, called, api>>

\* argument parsing, root check, connect, ensure_collection
Start(r) ==
  /\ pc[r] = "idle"
  /\ \E rootArg \in {Root, ""}, a \in ArgSets :
       LET rt == ResolveRoot(rootArg)
           paths == iter_asset_paths(rt, tree)
       IN /\ Exists(rt)
          /\ root' = [root EXCEPT ![r] = rt]
          /\ args' = [args EXCEPT ![r] = a]
          /\ collections' = ensure_collection(collections, a.collection_id,
                               "NAS Assets", "Assets indexed from NAS storage.", rt)
          /\ crawl' = [crawl EXCEPT ![r] = paths]
          /\ pc' = [pc EXCEPT ![r] = IF paths = << >> THEN "flush" ELSE "crawl"]
          /\ snap' = [snap EXCEPT ![r] = items]
          /\ after' = [after EXCEPT ![r] =
                         \E s \in Runs : /\ pc[s] = "done"
                                         /\ ~args[s].dry_run
                                         /\ root[s] = rt
                                         /\ args[s].collection_id = a.collection_id]
  /\ UNCHANGED <<env, items, batch, existing, pending_rows, totals, exit, err,
                 added, trace, called, api>>

\* for batch in chunked(...): the next batch and its existence check
NextBatch(r) ==
  /\ pc[r] = "crawl"
  /\ LET ch == chunked(crawl[r], args[r].batch_size)
         batch_paths == [i \in 1..Len(ch.batch) |-> StrPath(root[r], ch.batch[i])]
     IN /\ batch' = [batch EXCEPT ![r] = ch.batch]
        /\ crawl' = [crawl EXCEPT ![r] = ch.rest]
        /\ existing' = [existing EXCEPT ![r] = fetch_existing_paths(items, batch_paths)]
  /\ fetches' = [fetches EXCEPT ![r] = @ + 1]
  /\ pc' = [pc EXCEPT ![r] = "proc"]
  /\ UNCHANGED <<env, store, args, root, pending_rows, totals, exit, err, hist,
                 logged, queued, passed, called, api>>

\* Where the loops continue after a path of the batch is done.
AfterPath(r) ==
  IF Tail(batch[r]) # << >> THEN "proc"
  ELSE IF crawl[r] # << >> THEN "crawl"
  ELSE "flush"

Extract(f) ==
  IF FileInfo[f].suffix \in {".tif", ".tiff"} THEN raster_metadata(f)
  ELSE vector_metadata(f)

\* What the body of "for path in batch" does with one path, up to an insert.
PathOutcome(r, f) ==
  IF StrPath(root[r], f) \in existing[r] THEN "skipped"
  ELSE IF Extract(f).tag # "ok" THEN "nometa"
  ELSE IF args[r].dry_run THEN "dry"
  ELSE IF Len(pending_rows[r]) + 1 >= args[r].insert_batch_size THEN "insert"
  ELSE "queued"

NewRow(r, f) ==
  build_item_row(f, NasPath(nas_host_root(r), f), args[r].collection_id, Extract(f))

\* One iteration of "for path in batch" in which no statement raises.
ProcessPath(r) ==
  /\ pc[r] = "proc"
  /\ LET f == Head(batch[r])
         out == PathOutcome(r, f)
         rows == Append(pending_rows[r], NewRow(r, f))
     IN /\ total_scanned' = [total_scanned EXCEPT ![r] = @ + 1]
        /\ total_skipped' = [total_skipped EXCEPT ![r] =
                               IF out = "skipped" THEN @ + 1 ELSE @]
        /\ CASE out \in {"skipped", "nometa"} ->
                  UNCHANGED <<items, pending_rows, total_inserted, added,
                              queued, passed>>
             [] out = "dry" ->
                  /\ total_inserted' = [total_inserted EXCEPT ![r] = @ + 1]
                  /\ UNCHANGED <<items, pending_rows, added, queued, passed>>
             [] out = "queued" ->
                  /\ pending_rows' = [pending_rows EXCEPT ![r] = rows]
                  /\ queued' = [queued EXCEPT ![r] = Append(@, NewRow(r, f))]
                  /\ UNCHANGED <<items, total_inserted, added, passed>>
             [] out = "insert" ->
                  LET res == insert_items(items, rows)
                  IN /\ res.ok
                     /\ items' = res.table
                     /\ added' = [added EXCEPT ![r] = @ + Len(res.table) - Len(items)]
                     /\ total_inserted' = [total_inserted EXCEPT ![r] = @ + Len(rows)]
                     /\ pending_rows' = [pending_rows EXCEPT ![r] = << >>]
                     /\ queued' = [queued EXCEPT ![r] = Append(@, NewRow(r, f))]
                     /\ passed' = [passed EXCEPT ![r] = @ \o rows]
        /\ batch' = [batch EXCEPT ![r] = Tail(@)]
        /\ pc' = [pc EXCEPT ![r] = AfterPath(r)]
  /\ UNCHANGED <<env, collections, args, root, crawl, existing, exit, err,
                 snap, after, logged, fetches, called, api>>

\* Why an insert of these rows raises: the statement itself, or the server.
InsertErrors(rows) ==
  {"server"} \cup (IF insert_items(items, rows).ok THEN {} ELSE {"unique"})

\* The iteration reaches insert_items and the insert raises: the exception
\* leaves main(), nothing of the batch is committed.
ProcessPathInsertRaises(r) ==
  /\ pc[r] = "proc"
  /\ LET f == Head(batch[r])
         rows == Append(pending_rows[r], NewRow(r, f))
     IN /\ PathOutcome(r, f) = "insert"
        /\ \E why \in InsertErrors(rows) : Fail(r, why)
        /\ total_scanned' = [total_scanned EXCEPT ![r] = @ + 1]
        /\ pending_rows' = [pending_rows EXCEPT ![r] = rows]
        /\ queued' = [queued EXCEPT ![r] = Append(@, NewRow(r, f))]
        /\ passed' = [passed EXCEPT ![r] = @ \o rows]
  /\ UNCHANGED <<env, store, args, root, crawl, batch, existing,
                 total_inserted, total_skipped, hist, logged, fetches, called, api>>

\* Mutant: the run ends without the end-of-run flush.
FinishNoFlush(r) ==
  /\ pc[r] = "flush"
  /\ logged' = [logged EXCEPT ![r] =
                  <<total_scanned[r], total_inserted[r], total_skipped[r]>>]
  /\ pc' = [pc EXCEPT ![r] = "done"]
  /\ exit' = [exit EXCEPT ![r] = 0]
  /\ UNCHANGED <<env, store, local, totals, err, hist, fetches, queued, passed,
                 called, api>>

\* The end-of-run flush, the summary log line, conn.close(), return 0.
Finish(r) ==
  /\ pc[r] = "flush"
  /\ IF ~args[r].dry_run /\ pending_rows[r] # << >>
     THEN LET res == insert_items(items, pending_rows[r])
          IN /\ res.ok
             /\ items' = res.table
             /\ added' = [added EXCEPT ![r] = @ + Len(res.table) - Len(items)]
             /\ total_inserted' = [total_inserted EXCEPT ![r] = @ + Len(pending_rows[r])]
             /\ passed' = [passed EXCEPT ![r] = @ \o pending_rows[r]]
     ELSE UNCHANGED <<items, added, total_inserted, passed>>
  /\ logged' = [logged EXCEPT ![r] =
                  <<total_scanned[r], total_inserted'[r], total_skipped[r]>>]
  /\ pc' = [pc EXCEPT ![r] = "done"]
  /\ exit' = [exit EXCEPT ![r] = 0]
  /\ UNCHANGED <<env, collections, local, total_scanned, total_skipped, err,
                 snap, after, fetches, queued, called, api>>

\* The end-of-run flush raises.
FinishInsertRaises(r) ==
  /\ pc[r] = "flush"
  /\ ~args[r].dry_run
  /\ pending_rows[r] # << >>
  /\ \E why \in InsertErrors(pending_rows[r]) : Fail(r, why)
  /\ passed' = [passed EXCEPT ![r] = @ \o pending_rows[r]]
  /\ UNCHANGED <<env, store, local, totals, hist, logged, fetches, queued,
                 called, api>>

Next ==
  \E r \in Runs :
    \/ StartBadRoot(r)
    \/ StartConnectFails(r)
    \/ Start(r)
    \/ NextBatch(r)
    \/ ProcessPath(r)
    \/ ProcessPathInsertRaises(r)
    \/ Finish(r)
    \/ FinishInsertRaises(r)

Spec == Init /\ [][Next]_vars

\* ------------------------------------------------------------------------
\* ensure_collection() on its own, called with any arguments
\* ------------------------------------------------------------------------
EnsureIds == {"nas-assets", "other", "third"}
EnsureTitles == {"NAS Assets", "Other title"}
EnsureDescriptions == {"Assets indexed from NAS storage."}
EnsureRoots == {Root, Cwd}

EnsureCollection ==
  /\ \E id \in EnsureIds, title \in EnsureTitles,
        description \in EnsureDescriptions, nas_root \in EnsureRoots :
       /\ collections' = ensure_collection(collections, id, title,
                                           description, nas_root)
       /\ called' = [collection_id |-> id, title |-> title,
                     description |-> description, nas_root |-> nas_root]
  /\ UNCHANGED <<env, items, pc, local, totals, exit, err, hist, trace, api>>

NextEnsure == EnsureCollection

SpecEnsure == Init /\ [][NextEnsure]_vars

\* ------------------------------------------------------------------------
\* The catalog read API: backend/app/main.py
\* ------------------------------------------------------------------------
LimitMin == 1                      \* Query(ge=1)
LimitMax == 1000                   \* Query(le=1000)
BadTok == -888888                  \* a bbox value that is not the text of a number
NullJson == << >>                  \* JSON null / SQL NULL
WorldBBox == <<-180, -90, 180, 90>>

SetMin(S) == CHOOSE x \in S : \A y \in S : x <= y
SetMax(S) == CHOOSE x \in S : \A y \in S : x >= y

\* SELECT ST_Extent(geom): the text of the enclosing box, NULL for no rows.
ST_Extent(rows) ==
  IF rows = {} THEN [head |-> "NULL", open |-> "", nums |-> << >>, close |-> ""]
  ELSE [head |-> "BOX", open |-> "(",
        nums |-> <<SetMin({r.geom.minx : r \in rows}), SetMin({r.geom.miny : r \in rows}),
                   SetMax({r.geom.maxx : r \in rows}), SetMax({r.geom.maxy : r \in rows})>>,
        close |-> ")"]

\* parse_box(): the pattern r"BOX\\(([-\\d\\.]+) ..." asks for a backslash
\* after BOX; text it matches has five groups and cannot be unpacked.
parse_box(extent) ==
  IF extent.head = "NULL" THEN [ok |-> TRUE, box |-> NullBBox]
  ELSE IF ~(extent.head = "BOX" /\ extent.open = "\\" /\ extent.close = "\\")
       THEN [ok |-> TRUE, box |-> NullBBox]
  ELSE [ok |-> FALSE, box |-> NullBBox]

\* format_datetime(): a timestamp is <<t>>, NULL is << >>.
format_datetime(value) ==
  IF value = << >> THEN NullJson ELSE <<"iso", value[1], "Z">>

\* Mutant: the fallback to the whole-world box is missing.
collection_extent_nofallback(table, collection_id) ==
  LET rows == {r \in RowsOf(table) : r.collection_id = collection_id}
      times == {r.datetime : r \in rows}
      parsed == parse_box(ST_Extent(rows))
  IN [ok |-> parsed.ok,
      extent |-> [spatial |-> [bbox |-> <<parsed.box>>],
                  temporal |-> [interval |-> << <<NullJson, NullJson>> >>]]]

collection_extent(table, collection_id) ==
  LET rows == {r \in RowsOf(table) : r.collection_id = collection_id}
      times == {r.datetime : r \in rows}
      parsed == parse_box(ST_Extent(rows))
      min_dt == format_datetime(IF rows = {} THEN << >> ELSE <<SetMin(times)>>)
      max_dt == format_datetime(IF rows = {} THEN << >> ELSE <<SetMax(times)>>)
      bbox == IF parsed.box = NullBBox THEN WorldBBox ELSE parsed.box
  IN [ok |-> parsed.ok,
      extent |-> [spatial |-> [bbox |-> <<bbox>>],
                  temporal |-> [interval |-> << <<min_dt, max_dt>> >>]]]

row_to_collection(table, row) ==
  LET computed == collection_extent(table, row.id)
  IN [ok |-> row.extent # NullExtent \/ computed.ok,
      collection |-> [type |-> "Collection", id |-> row.id, title |-> row.title,
                      description |-> row.description, license |-> "proprietary",
                      extent |-> IF row.extent # NullExtent THEN row.extent[1]
                                 ELSE computed.extent]]

row_to_item(row) ==
  [type |-> "Feature", id |-> row.id, collection |-> row.collection_id,
   geometry |-> row.geom, bbox |-> row.bbox, datetime |-> format_datetime(<<row.datetime>>)]

\* Mutant: ORDER BY id DESC.
RECURSIVE OrderByIdDesc(_)
OrderByIdDesc(S) ==
  IF S = {} THEN << >>
  ELSE LET m == CHOOSE r \in S : \A o \in S : r.id[2] >= o.id[2]
       IN <<m>> \o OrderByIdDesc(S \ {m})

\* ORDER BY id on a set of item rows.
RECURSIVE OrderById(_)
OrderById(S) ==
  IF S = {} THEN << >>
  ELSE LET m == CHOOSE r \in S : \A o \in S : r.id[2] <= o.id[2]
       IN <<m>> \o OrderById(S \ {m})

\* LIMIT n
Limit(q, n) == SubSeq(q, 1, IF n < Len(q) THEN n ELSE Len(q))

\* ST_MakeEnvelope(x1, y1, x2, y2, 4326)
ST_MakeEnvelope(b) == box(b[1], b[2], b[3], b[4])

\* geom && envelope: the bounding boxes of the two geometries overlap.
Lo(a, b) == IF a <= b THEN a ELSE b
Hi(a, b) == IF a >= b THEN a ELSE b

Overlaps(g, e) ==
  /\ Lo(g.minx, g.maxx) <= Hi(e.minx, e.maxx)
  /\ Lo(e.minx, e.maxx) <= Hi(g.minx, g.maxx)
  /\ Lo(g.miny, g.maxy) <= Hi(e.miny, e.maxy)
  /\ Lo(e.miny, e.maxy) <= Hi(g.miny, g.maxy)

\* lower(): the texts of the model in lower case.
Lower(t) ==
  CASE t = "Seoul" -> "seoul"
    [] t = "Busan" -> "busan"
    [] OTHER -> t

\* value ILIKE pattern, for patterns without wildcard; NULL matches nothing.
ILike(value, pattern) == value # None /\ Lower(value) = Lower(pattern)

\* Python truth of an optional text / of an optional list.
Truthy(t) == t # None /\ t # ""
NoBBox == [given |-> FALSE, toks |-> << >>]
BBoxTruthy(b) == b.given /\ b.toks # << >>

\* apply_filters() and the collection scope of query_items(): the WHERE clause.
Where(row, collection_id, year, region, zone, bbox) ==
  /\ Truthy(collection_id) => row.collection_id = collection_id
  /\ Truthy(year) => row.year = year
  /\ Truthy(region) => ILike(row.region, region)
  /\ zone # None => row.zone = zone
  /\ BBoxTruthy(bbox) => Overlaps(row.geom, ST_MakeEnvelope(bbox.toks))

\* cur.execute(sql, params) raises: the parameters do not fit the
\* placeholders, a bbox value is no number, or LIMIT is negative.
ExecuteRaises(bbox, limit) ==
  \/ BBoxTruthy(bbox) /\ Len(bbox.toks) # 4
  \/ BBoxTruthy(bbox) /\ \E i \in 1..Len(bbox.toks) : bbox.toks[i] = BadTok
  \/ limit < 0

\* query_items(): db is what the storage does ("ok", "connect_fails",
\* "query_fails"); conn is the state of the connection when it returns.
query_items(table, collection_id, year, region, zone, bbox, limit, db) ==
  IF db = "connect_fails"
  THEN [ok |-> FALSE, rows |-> << >>, conn |-> "none", queried |-> FALSE]
  ELSE IF db = "query_fails" \/ ExecuteRaises(bbox, limit)
  THEN [ok |-> FALSE, rows |-> << >>, conn |-> "open", queried |-> TRUE]
  ELSE LET hit == {row \in RowsOf(table) :
                     Where(row, collection_id, year, region, zone, bbox)}
           rows == Limit(OrderById(hit), limit)
       IN [ok |-> TRUE, rows |-> [i \in 1..Len(rows) |-> row_to_item(rows[i])],
           conn |-> "open", queried |-> TRUE]

\* A response; every field is present in every response.
Response(ep, req, db, status, features, colls, conn, queried) ==
  [ep |-> ep, req |-> req, db |-> db, status |-> status, features |-> features,
   collections |-> colls, conn |-> conn, queried |-> queried]

\* [float(x) for x in bbox.split(",")] if bbox else None
FloatsRaise(bbox) ==
  BBoxTruthy(bbox) /\ \E i \in 1..Len(bbox.toks) : bbox.toks[i] = BadTok

FirstOf(cs) == IF cs = << >> THEN None ELSE Head(cs)

\* The body shared by list_collection_items() and search_items_get(), after
\* the framework has validated limit against Query(ge=1, le=1000).
GetItems(ep, req, db) ==
  IF req.limit < LimitMin \/ req.limit > LimitMax
  THEN Response(ep, req, db, 422, << >>, << >>, "none", FALSE)
  ELSE IF FloatsRaise(req.bbox)
  THEN Response(ep, req, db, 500, << >>, << >>, "none", FALSE)
  ELSE LET q == query_items(items, FirstOf(req.collections), req.year, req.region,
                            req.zone, req.bbox, req.limit, db)
       IN Response(ep, req, db, IF q.ok THEN 200 ELSE 500, q.rows, << >>,
                   q.conn, q.queried)

\* Mutant: the items of a collection that does not exist are "not found".
list_collection_items_404(req, db) ==
  IF \A c \in collections : c.id # FirstOf(req.collections)
  THEN Response("items", req, db, 404, << >>, << >>, "none", FALSE)
  ELSE GetItems("items", req, db)

list_collection_items(req, db) == GetItems("items", req, db)

search_items_get(req, db) == GetItems("search_get", req, db)

\* search_items(): parse_search_body() takes limit and bbox as the body has them.
search_items(req, db) ==
  LET q == query_items(items, FirstOf(req.collections), req.year, req.region,
                       req.zone, req.bbox, req.limit, db)
  IN Response("search_post", req, db, IF q.ok THEN 200 ELSE 500, q.rows, << >>,
              q.conn, q.queried)

\* Collation order of the collection identifiers of the model.
CollRank(id) ==
  CASE id = "nas-assets" -> 1
    [] id = "other" -> 2
    [] OTHER -> 3

\* The rows of a SELECT on collections, ORDER BY id.
RECURSIVE OrderCollections(_)
OrderCollections(S) ==
  IF S = {} THEN << >>
  ELSE LET m == CHOOSE r \in S : \A o \in S : CollRank(r.id) <= CollRank(o.id)
       IN <<m>> \o OrderCollections(S \ {m})

RECURSIVE RenderAll(_, _)
RenderAll(table, rows) ==
  IF rows = << >> THEN [ok |-> TRUE, out |-> << >>]
  ELSE LET c == row_to_collection(table, Head(rows))
           rest == RenderAll(table, Tail(rows))
       IN [ok |-> c.ok /\ rest.ok, out |-> <<c.collection>> \o rest.out]

\* list_collections()
list_collections(req, db) ==
  IF db = "connect_fails"
  THEN Response("collections", req, db, 500, << >>, << >>, "none", FALSE)
  ELSE IF db = "query_fails"
  THEN Response("collections", req, db, 500, << >>, << >>, "open", TRUE)
  ELSE LET r == RenderAll(items, OrderCollections(collections))
       IN Response("collections", req, db, IF r.ok THEN 200 ELSE 500,
                   << >>, IF r.ok THEN r.out ELSE << >>, "open", TRUE)

\* get_collection()
get_collection(req, db) ==
  LET rows == {c \in collections : c.id = FirstOf(req.collections)}
  IN IF db = "connect_fails"
     THEN Response("collection", req, db, 500, << >>, << >>, "none", FALSE)
     ELSE IF db = "query_fails"
     THEN Response("collection", req, db, 500, << >>, << >>, "open", TRUE)
     ELSE IF rows = {}
     THEN Response("collection", req, db, 404, << >>, << >>, "open", TRUE)
     ELSE LET r == RenderAll(items, OrderCollections(rows))
          IN Response("collection", req, db, IF r.ok THEN 200 ELSE 500,
                      << >>, IF r.ok THEN r.out ELSE << >>, "open", TRUE)

\* landing() / build_landing(): the child links, none when the storage raises.
landing(req, db) ==
  LET rows == OrderCollections(collections)
      children == [i \in 1..Len(rows) |-> [rel |-> "child", id |-> rows[i].id]]
  IN IF db = "connect_fails"
     THEN Response("landing", req, db, 200, << >>, << >>, "none", FALSE)
     ELSE IF db = "query_fails"
     THEN Response("landing", req, db, 200, << >>, << >>, "open", TRUE)
     ELSE Response("landing", req, db, 200, << >>, children, "open", TRUE)

\* ------------------------------------------------------------------------
\* The read API as a state machine over a store that ingestion has filled
\* ------------------------------------------------------------------------
Tagged(row, year, region, zone) ==
  [row EXCEPT !.year = year, !.region = region, !.zone = zone]

\* Item rows as build_item_row() writes them; properties are free-form, so
\* some rows carry year / region / zone tags.
ApiRows ==
  { build_item_row(1, NasPath(NasMount, 1), "nas-assets", Extract(1)),
    Tagged(build_item_row(3, NasPath(NasMount, 3), "nas-assets", Extract(3)),
           "2020", "Seoul", "52N"),
    Tagged(build_item_row(6, NasPath(Root, 6), "other", Extract(6)),
           "2020", "Busan", None),
    Tagged(build_item_row(3, NasPath(Root, 3), "other", Extract(3)),
           "2021", "Seoul", "52N") }

CachedExtent ==
  [spatial |-> [bbox |-> << <<0, 0, 1, 1>> >>],
   temporal |-> [interval |-> << <<NullJson, NullJson>> >>]]

\* Collection rows as ensure_collection() writes them, one of them with an
\* extent cached in its row.
ApiCollections ==
  ensure_collection({}, "nas-assets", "NAS Assets", "Assets indexed from NAS storage.", Root)
  \cup ensure_collection({}, "other", "NAS Assets", "Assets indexed from NAS storage.", Root)
  \cup {[c EXCEPT !.extent = <<CachedExtent>>] :
          c \in ensure_collection({}, "other", "NAS Assets",
                                  "Assets indexed from NAS storage.", Root)}

\* Tables without repeated keys, of at most n rows.
RECURSIVE Tables(_)
Tables(n) ==
  IF n = 0 THEN {<< >>}
  ELSE LET smaller == Tables(n - 1)
       IN smaller \cup
          {Append(t, row) : t \in {u \in smaller : Len(u) = n - 1},
                            row \in ApiRows}

KeysDistinct(t) ==
  \A i, j \in 1..Len(t) : i # j => t[i].id # t[j].id /\ t[i].nas_path # t[j].nas_path

InitApi ==
  /\ env_host = None
  /\ items \in {t \in Tables(MaxItems) : KeysDistinct(t)}
  /\ collections \in {cs \in SUBSET ApiCollections :
                        /\ \A c, d \in cs : c.id = d.id => c = d
                        /\ \A i \in 1..Len(items) :
                             \E c \in cs : c.id = items[i].collection_id}
  /\ tree = SubSeq(WalkOrder, 1, MaxTree)
  /\ pc = [r \in Runs |-> "idle"]
  /\ args = [r \in Runs |-> NoArgs]
  /\ root = [r \in Runs |-> None]
  /\ crawl = [r \in Runs |-> << >>]
  /\ batch = [r \in Runs |-> << >>]
  /\ existing = [r \in Runs |-> {}]
  /\ pending_rows = [r \in Runs |-> << >>]
  /\ total_scanned = [r \in Runs |-> 0]
  /\ total_inserted = [r \in Runs |-> 0]
  /\ total_skipped = [r \in Runs |-> 0]
  /\ exit = [r \in Runs |-> NoExit]
  /\ err = [r \in Runs |-> None]
  /\ snap = [r \in Runs |-> << >>]
  /\ after = [r \in Runs |-> FALSE]
  /\ added = [r \in Runs |-> 0]
  /\ logged = [r \in Runs |-> << >>]
  /\ fetches = [r \in Runs |-> 0]
  /\ queued = [r \in Runs |-> << >>]
  /\ passed = [r \in Runs |-> << >>]
  /\ called = NoCall
  /\ resp = NoResp

\* The inputs of the requests
ReqCollections == {<< >>, <<"nas-assets">>, <<"other">>, <<"ghost">>}

ReqTags ==
  { [year |-> None, region |-> None, zone |-> None],
    [year |-> "2020", region |-> None, zone |-> None],
    [year |-> None, region |-> "seoul", zone |-> None],
    [year |-> "2020", region |-> None, zone |-> "52N"] }

ReqBoxes ==
  { NoBBox,
    [given |-> TRUE, toks |-> << >>],
    [given |-> TRUE, toks |-> <<-10, -10, 10, 10>>],
    [given |-> TRUE, toks |-> <<15, 15, 20, 20>>],
    [given |-> TRUE, toks |-> <<100, 50, 110, 60>>],
    [given |-> TRUE, toks |-> <<0, 0, 10>>],
    [given |-> TRUE, toks |-> <<0, 0, BadTok, 10>>] }

ReqLimits == {-1, 0, 1, 2, LimitMax, LimitMax + 1}

Storage == {"ok", "connect_fails", "query_fails"}

Req(cs, tags, bbox, limit) ==
  [collections |-> cs, year |-> tags.year, region |-> tags.region,
   zone |-> tags.zone, bbox |-> bbox, limit |-> limit]

PlainReq(cs) == Req(cs, [year |-> None, region |-> None, zone |-> None], NoBBox, 100)

Landing ==
  /\ resp = NoResp
  /\ \E db \in Storage : resp' = landing(PlainReq(<< >>), db)
  /\ UNCHANGED <<env, store, runvars>>

ListCollections ==
  /\ resp = NoResp
  /\ \E db \in Storage : resp' = list_collections(PlainReq(<< >>), db)
  /\ UNCHANGED <<env, store, runvars>>

GetCollection ==
  /\ resp = NoResp
  /\ \E db \in Storage, cs \in ReqCollections \ {<< >>} :
       resp' = get_collection(PlainReq(cs), db)
  /\ UNCHANGED <<env, store, runvars>>

ListCollectionItems ==
  /\ resp = NoResp
  /\ \E db \in Storage, cs \in ReqCollections \ {<< >>}, tags \in ReqTags,
        bbox \in ReqBoxes, limit \in ReqLimits :
       resp' = list_collection_items(Req(cs, tags, bbox, limit), db)
  /\ UNCHANGED <<env, store, runvars>>

SearchGet ==
  /\ resp = NoResp
  /\ \E db \in Storage, cs \in ReqCollections, tags \in ReqTags,
        bbox \in ReqBoxes, limit \in ReqLimits :
       resp' = search_items_get(Req(cs, tags, bbox, limit), db)
  /\ UNCHANGED <<env, store, runvars>>

SearchPost ==
  /\ resp = NoResp
  /\ \E db \in Storage, cs \in ReqCollections, tags \in ReqTags,
        bbox \in ReqBoxes, limit \in ReqLimits :
       resp' = search_items(Req(cs, tags, bbox, limit), db)
  /\ UNCHANGED <<env, store, runvars>>

\* The interpreter finalizes the connection object the handler dropped.
Finalize ==
  /\ resp # NoResp
  /\ resp.conn = "open"
  /\ resp' = [resp EXCEPT !.conn = "closed"]
  /\ UNCHANGED <<env, store, runvars>>

\* The response has been sent; the server waits for the next request.
Sent ==
  /\ resp # NoResp
  /\ resp' = NoResp
  /\ UNCHANGED <<env, store, runvars>>

NextApi ==
  \/ Landing
  \/ ListCollections
  \/ GetCollection
  \/ ListCollectionItems
  \/ SearchGet
  \/ SearchPost
  \/ Finalize
  \/ Sent

SpecApi == InitApi /\ [][NextApi]_vars

\* ------------------------------------------------------------------------
\* Properties of the ingestion run
\* ------------------------------------------------------------------------
TreeFiles == {tree[i] : i \in 1..Len(tree)}

\* C1: a non-dry run that starts after a completed non-dry run of the same
\* tree and collection ends with the items table exactly as it found it.
C1_RerunAddsNothing ==
  \A r \in Runs :
    (after[r] /\ pc[r] = "done" /\ ~args[r].dry_run) => items = snap[r]

\* The second run has finished, and it did reach the insert step.
C1_Witness ==
  \E r \in Runs :
    /\ after[r] /\ pc[r] = "done" /\ ~args[r].dry_run
    /\ items # << >>
    /\ total_inserted[r] > 0

\* C2: under every interleaving of the two runs no two rows of the items
\* table share an identifier or a source path, and no insert raises because
\* a row it carries is already stored.
C2_RaceIsNoOp ==
  /\ \A i, j \in 1..Len(items) :
       i # j => /\ items[i].id # items[j].id
                /\ items[i].nas_path # items[j].nas_path
  /\ \A r \in Runs : err[r] # "unique"

\* A run found a path absent at its existence check, the other run stored it
\* first, and the run's insert of that row added nothing.
C2_Witness ==
  \E r \in Runs :
    /\ pc[r] = "done" /\ ~args[r].dry_run /\ ~after[r]
    /\ env_host = None
    /\ 6 \notin TreeFiles
    /\ total_inserted[r] > added[r]
    /\ \A s \in Runs : root[s] = Root /\ ~args[s].dry_run

\* C3: every stored and every queued row has a geometry and a bounding box,
\* and no file whose extraction returns no metadata is queued or stored.
C3_NoNullGeometry ==
  \A row \in RowsOf(items) \cup UNION {RowsOf(pending_rows[r]) : r \in Runs} :
    /\ row.geom.type = "Polygon"
    /\ Len(row.bbox) = 4
    /\ \A f \in Files : Extract(f).tag = "none" => row.nas_path[2] # RelPath(f)

\* A run over a tree with a file without coordinate system has finished and
\* stored the other files.
C3_Witness ==
  \E r \in Runs :
    /\ pc[r] = "done" /\ ~args[r].dry_run /\ root[r] = Root
    /\ \E f \in TreeFiles : Extract(f).tag = "none"
    /\ total_scanned[r] = Len(tree)
    /\ items # << >>

\* ------------------------------------------------------------------------
\* Properties of the read API
\* ------------------------------------------------------------------------
ItemEps == {"items", "search_get", "search_post"}

LimitInRange(req) == req.limit >= 1 /\ req.limit <= 1000

\* Four numbers, minX <= maxX and minY <= maxY.
WellFormed(b) ==
  /\ b.given
  /\ Len(b.toks) = 4
  /\ \A i \in 1..4 : b.toks[i] # BadTok
  /\ b.toks[1] <= b.toks[3]
  /\ b.toks[2] <= b.toks[4]

Malformed(b) ==
  b.given /\ (Len(b.toks) # 4 \/ \E i \in 1..Len(b.toks) : b.toks[i] = BadTok)

\* Two [minX, minY, maxX, maxY] boxes have a point in common.
BBoxIntersects(b, q) ==
  b[1] <= q[3] /\ q[1] <= b[3] /\ b[2] <= q[4] /\ q[2] <= b[4]

\* The row passes the filters the request supplies, the bbox apart.
PassesTags(row, req) ==
  /\ req.collections # << >> => row.collection_id = req.collections[1]
  /\ req.year # None => row.year = req.year
  /\ req.region # None => (row.region # None /\ Lower(row.region) = Lower(req.region))
  /\ req.zone # None => row.zone = req.zone

Wanted(req) ==
  {row \in RowsOf(items) :
     /\ PassesTags(row, req)
     /\ req.bbox.given => BBoxIntersects(row.bbox, req.bbox.toks)}

\* C4: a search with a bounding box and a limit L in [1, 1000] returns the
\* items whose stored bounding box intersects the query box and that pass
\* the other supplied filters: the first L of them in ascending identifier
\* order, and nothing else.
C4_BBoxSearch ==
  (/\ resp.ep \in ItemEps
   /\ resp.db = "ok"
   /\ LimitInRange(resp.req)
   /\ WellFormed(resp.req.bbox))
  => LET want == Wanted(resp.req)
         got == resp.features
     IN /\ resp.status = 200
        /\ Len(got) = (IF Cardinality(want) < resp.req.limit
                       THEN Cardinality(want) ELSE resp.req.limit)
        /\ \A i \in 1..Len(got) :
             \E row \in want : got[i].id = row.id /\ got[i].bbox = row.bbox
        /\ \A i, j \in 1..Len(got) : i < j => got[i].id[2] < got[j].id[2]
        /\ \A row \in want :
             (\A i \in 1..Len(got) : got[i].id # row.id)
               => \A i \in 1..Len(got) : got[i].id[2] < row.id[2]

\* A bbox search whose limit cuts the matching items short.
C4_Witness ==
  /\ resp.ep = "search_get"
  /\ resp.db = "ok"
  /\ WellFormed(resp.req.bbox)
  /\ resp.req.limit = 1
  /\ Cardinality(Wanted(resp.req)) = 2
  /\ Cardinality(Wanted(resp.req)) < Len(items)
  /\ Len(resp.features) = 1

\* C5: a list or search request whose limit is outside [1, 1000] gets a
\* client error and no storage query is issued, on the items GET, the
\* search GET and the search POST alike.
C5_LimitRejected ==
  (resp.ep \in ItemEps /\ ~LimitInRange(resp.req))
  => (resp.status \in 400..499 /\ ~resp.queried)

\* C6: a request whose bbox parameter has not exactly four values or has a
\* value that is no number gets a client error.
C6_MalformedBBoxRejected ==
  (resp.ep \in ItemEps /\ Malformed(resp.req.bbox))
  => resp.status \in 400..499

CollectionRow(id) == CHOOSE c \in collections : c.id = id

ItemsOf(id) == {row \in RowsOf(items) : row.collection_id = id}

\* C7: the extent reported for a collection with items and no cached extent
\* has the smallest box enclosing the boxes of the collection's items.
C7_ExtentIsUnion ==
  (resp.ep \in {"collection", "collections"} /\ resp.status = 200)
  => \A i \in 1..Len(resp.collections) :
       LET c == resp.collections[i]
           rows == ItemsOf(c.id)
       IN (rows # {} /\ CollectionRow(c.id).extent = NullExtent)
          => c.extent.spatial.bbox =
               << <<SetMin({r.bbox[1] : r \in rows}), SetMin({r.bbox[2] : r \in rows}),
                    SetMax({r.bbox[3] : r \in rows}), SetMax({r.bbox[4] : r \in rows})>> >>

\* C8: a collection without items (and without cached extent) is reported
\* with the box [-180, -90, 180, 90] and the interval [null, null].
C8_EmptyExtentIsWorld ==
  (resp.ep \in {"collection", "collections"} /\ resp.db = "ok" /\ resp.status # 404)
  => /\ resp.status = 200
     /\ \A i \in 1..Len(resp.collections) :
          LET c == resp.collections[i]
          IN (ItemsOf(c.id) = {} /\ CollectionRow(c.id).extent = NullExtent)
             => c.extent = [spatial |-> [bbox |-> << <<-180, -90, 180, 90>> >>],
                            temporal |-> [interval |-> << << << >>, << >> >> >>]]

\* The single-collection lookup of a collection that has no items.
C8_Witness ==
  /\ resp.ep = "collection"
  /\ resp.status = 200
  /\ Len(resp.collections) = 1
  /\ ItemsOf(resp.collections[1].id) = {}
  /\ CollectionRow(resp.collections[1].id).extent = NullExtent
  /\ items # << >>

\* C9: with the storage answering, a request is "not found" exactly when it
\* is the lookup of a collection that is not in the collections table; a
\* list or search with valid parameters that matches nothing is answered
\* with an empty list.
C9_NotFoundOnlyForMissingCollection ==
  (resp.ep # "none" /\ resp.db = "ok")
  => /\ resp.status = 404
          <=> (/\ resp.ep = "collection"
               /\ \A c \in collections : c.id # resp.req.collections[1])
     /\ (/\ resp.ep \in ItemEps
         /\ LimitInRange(resp.req)
         /\ (resp.req.bbox.given => WellFormed(resp.req.bbox))
         /\ Wanted(resp.req) = {})
        => (resp.status = 200 /\ resp.features = << >>)
     /\ (resp.ep \in {"collections", "landing"} /\ collections = {})
        => (resp.status = 200 /\ resp.collections = << >>)

\* The items of a collection that does not exist: an empty feature set.
C9_Witness ==
  /\ resp.ep = "items"
  /\ resp.db = "ok"
  /\ resp.req.collections = <<"ghost">>
  /\ LimitInRange(resp.req)
  /\ ~resp.req.bbox.given
  /\ resp.status = 200
  /\ resp.features = << >>
  /\ items # << >>

\* C10: when a request has been answered, the storage connection it
\* acquired is closed.
C10_ConnectionReleased ==
  resp.ep # "none" => resp.conn # "open"

\* ------------------------------------------------------------------------
\* Properties of failure handling, dry runs and the run's bookkeeping
\* ------------------------------------------------------------------------
InsertFailed(r) == pc[r] = "failed" /\ err[r] \in {"server", "unique"}

\* C11: when the insert of a batch raises, no row of that batch is counted as
\* inserted and the run, which does not retry, terminates having reported how
\* many items it had committed before the failure.
C11_InsertFailureReported ==
  \A r \in Runs :
    InsertFailed(r) =>
      /\ total_inserted[r] = Len(passed[r]) - Len(pending_rows[r])
      /\ logged[r] # << >>
      /\ logged[r][2] = total_inserted[r]

\* A step taken by run r.
StepOf(r) == <<pc[r], batch[r]>>' # <<pc[r], batch[r]>>

\* C12: no step of a run in dry-run mode changes the collections table or the
\* items table.
C12_DryRunWritesNothing ==
  [][\A r \in Runs : (args'[r].dry_run /\ StepOf(r)) => UNCHANGED store]_vars

HasId(table, id) == \E c \in table : c.id = id

\* C13: a call of ensure_collection creates the row when the identifier is
\* absent, and otherwise leaves the table as it is; in both cases every row that
\* was present stays as it was.
C13_EnsureCollectionIdempotent ==
  [][/\ \A c \in collections : c \in collections'
     /\ called' # NoCall => HasId(collections', called'.collection_id)
     /\ (called' # NoCall /\ ~HasId(collections, called'.collection_id))
          => collections' = collections \cup
               {[id |-> called'.collection_id, title |-> called'.title,
                 description |-> called'.description, extent |-> NullExtent,
                 nas_root |-> called'.nas_root]}
     /\ HasId(collections, called'.collection_id) => collections' = collections
     /\ \A c, d \in collections' : c.id = d.id => c = d]_vars

\* A repeated call with another title or root has left the present row alone,
\* next to another collection.
C13_Witness ==
  /\ called # NoCall
  /\ Cardinality(collections) >= 2
  /\ \E c \in collections :
       /\ c.id = called.collection_id
       /\ c.title # called.title
       /\ c.nas_root # called.nas_root

\* The root location was not given: the empty string resolved to Cwd.
RootUnset(r) == root[r] = Cwd

\* C14: a completed run exits 0; a run whose root is unset or missing, or whose
\* connection fails, exits non-zero having scanned and written nothing.
C14_ExitStatus ==
  \A r \in Runs :
    /\ pc[r] = "done" => exit[r] = 0
    /\ (RootUnset(r) \/ err[r] \in {"root", "connect"})
         => /\ pc[r] = "failed"
            /\ exit[r] # 0
            /\ total_scanned[r] = 0
            /\ fetches[r] = 0
            /\ passed[r] = << >>

RunFiles(r) == iter_asset_paths(root[r], tree)

CeilDiv(n, b) == (n + b - 1) \div b

\* Every file of the run's tree had its row in the items table at the start.
AllIndexed(r) ==
  \A i \in 1..Len(RunFiles(r)) :
    \E j \in 1..Len(snap[r]) :
      snap[r][j].nas_path = NasPath(nas_host_root(r), RunFiles(r)[i])

\* C15: a completed run over N files with batch size B has issued ceil(N/B)
\* existence checks, and when every file was already indexed it has skipped
\* all N and has extracted and inserted nothing.
C15_ExistenceChecksOnly ==
  \A r \in Runs :
    pc[r] = "done" =>
      /\ fetches[r] = CeilDiv(Len(RunFiles(r)), args[r].batch_size)
      /\ AllIndexed(r) =>
           /\ total_skipped[r] = Len(RunFiles(r))
           /\ total_inserted[r] = 0
           /\ passed[r] = << >>

CompletedWrite(r) == pc[r] = "done" /\ ~args[r].dry_run

\* The last Len(q) rows of p are q.
IsSuffix(q, p) ==
  /\ Len(q) <= Len(p)
  /\ SubSeq(p, Len(p) - Len(q) + 1, Len(p)) = q

\* C16 (as the claim states it): at the end of a completed non-dry run every
\* queued row has been passed to the insert step exactly once and the pending
\* queue is empty.
C16_QueueEmptyAtEnd ==
  \A r \in Runs :
    CompletedWrite(r) => (passed[r] = queued[r] /\ pending_rows[r] = << >>)

\* C16: at the end of a completed non-dry run every queued row has been passed
\* to the insert step exactly once, in queue order; what pending_rows still
\* holds are the rows of the final flush.
C16_EachRowPassedOnce ==
  \A r \in Runs :
    CompletedWrite(r) =>
      (passed[r] = queued[r] /\ IsSuffix(pending_rows[r], passed[r]))

\* A completed run in which candidates without metadata were passed over and
\* the final flush wrote the rest.
C16_Witness ==
  \E r \in Runs :
    /\ CompletedWrite(r)
    /\ pending_rows[r] # << >>
    /\ passed[r] # << >>
    /\ total_scanned[r] > Len(queued[r]) + total_skipped[r]

\* C17: the summary of a completed non-dry run reports as inserted the number
\* of rows the run added to the table and as scanned the number of crawled
\* candidates, with inserted + skipped <= scanned.
C17_ReportedEqualsAdded ==
  \A r \in Runs :
    CompletedWrite(r) =>
      /\ logged[r][2] = added[r]
      /\ logged[r][1] = Len(RunFiles(r))
      /\ logged[r][2] + logged[r][3] <= logged[r][1]

====
